---- MODULE Spec2Model ----
(***************************************************************************)
(* Model of src/src/formRenderer.js: a form rendered from a declarative    *)
(* configuration (renderForm, createField), the visibility engine          *)
(* (applyVisibilityRules / updateVisibility) and the submit listener.      *)
(*                                                                         *)
(* Text (field ids, control values, labels, the output area's content) is  *)
(* a sequence of one-character strings, so that JSON.stringify and the     *)
(* deserialization used by the round-trip property are computed character  *)
(* by character.  An optional property of a configuration object is a      *)
(* record with a `present` flag.                                           *)
(***************************************************************************)
EXTENDS Integers, Sequences, FiniteSets, TLC

VARIABLES
    config,        \* the FormConfig handed to renderForm
    roleParam,     \* params.get('role'): the URL's role parameter
    pc,            \* "loaded" before renderForm has run, "mounted" after
    headings,      \* textContent of the rendered h3.section-title elements
    dom,           \* the div.field wrappers of the form, in tree order
    value,         \* control name -> the control's current value
    display,       \* wrapper index -> wrapper.style.display
    evaluated,     \* wrappers whose style.display updateVisibility has assigned
    pending,       \* a control's value changed and its change event is not yet dispatched
    summary,       \* the #validation-summary elements appended to the form
    outputText,    \* textContent of #output-json
    outputHidden,  \* #form-output carries the class 'hidden'
    lastOutcome,   \* how the most recent submit ended: "none", "Rejected", "Accepted"
    submits        \* number of submit events the listener has handled

vars == <<config, roleParam, pc, headings, dom, value, display, evaluated,
          pending, summary, outputText, outputHidden, lastOutcome, submits>>

----------------------------------------------------------------------------
(* Bounds of the explored configurations.                                  *)

MaxSections == 3
MaxOrder == 2
MaxSubmits == 2

----------------------------------------------------------------------------
(* Text.                                                                   *)

Range(s) == {s[i] : i \in DOMAIN s}

\* an optional property that is set
Some(v) == [present |-> TRUE, value |-> v]

DigitChar == <<"0", "1", "2", "3", "4", "5", "6", "7", "8", "9">>

\* String(n) of a non-negative integer, as the template literal formats it.
RECURSIVE NumberToString(_)
NumberToString(n) ==
    IF n < 10 THEN <<DigitChar[n + 1]>>
    ELSE NumberToString(n \div 10) \o <<DigitChar[(n % 10) + 1]>>

----------------------------------------------------------------------------
(* JSON.stringify(data, null, 2) of a flat object of strings, and          *)
(* JSON.parse of such a text.  An object is the sequence of its            *)
(* [key, value] members in insertion order.                                *)

\* data[key] = value
ObjectSet(data, key, val) ==
    IF \E i \in DOMAIN data : data[i].key = key
    THEN [i \in DOMAIN data |->
            IF data[i].key = key THEN [key |-> key, value |-> val] ELSE data[i]]
    ELSE Append(data, [key |-> key, value |-> val])

ObjectAsMapping(data) == {<<data[i].key, data[i].value>> : i \in DOMAIN data}

QuoteChar_Unescaped(c) == <<c>>

\* QuoteJSONString: the escape of one character
QuoteChar(c) ==
    IF c = "\"" THEN <<"\\", "\"">>
    ELSE IF c = "\\" THEN <<"\\", "\\">>
    ELSE IF c = "\n" THEN <<"\\", "n">>
    ELSE <<c>>

RECURSIVE QuoteBody(_)
QuoteBody(s) == IF s = <<>> THEN <<>> ELSE QuoteChar(Head(s)) \o QuoteBody(Tail(s))

Quote(s) == <<"\"">> \o QuoteBody(s) \o <<"\"">>

RECURSIVE StringifyMembers(_, _)
StringifyMembers(data, i) ==
    IF i > Len(data) THEN <<>>
    ELSE <<" ", " ">> \o Quote(data[i].key) \o <<":", " ">> \o Quote(data[i].value)
         \o (IF i < Len(data) THEN <<",", "\n">> ELSE <<>>)
         \o StringifyMembers(data, i + 1)

JSONStringify(data) ==
    IF data = <<>> THEN <<"{", "}">>
    ELSE <<"{", "\n">> \o StringifyMembers(data, 1) \o <<"\n", "}">>

WhiteSpace == {" ", "\n", "\t", "\r"}

RECURSIVE SkipWhiteSpace(_, _)
SkipWhiteSpace(text, i) ==
    IF i <= Len(text) /\ text[i] \in WhiteSpace THEN SkipWhiteSpace(text, i + 1) ELSE i

ParseFailure == [ok |-> FALSE, value |-> <<>>, next |-> 0]

Unescape(c) == IF c = "n" THEN "\n" ELSE c

\* the characters of a string literal from position i (after the opening quote)
RECURSIVE ParseStringBody(_, _, _)
ParseStringBody(text, i, acc) ==
    IF i > Len(text) THEN ParseFailure
    ELSE IF text[i] = "\"" THEN [ok |-> TRUE, value |-> acc, next |-> i + 1]
    ELSE IF text[i] = "\\"
         THEN IF i + 1 > Len(text) \/ text[i + 1] \notin {"\"", "\\", "n"}
              THEN ParseFailure
              ELSE ParseStringBody(text, i + 2, Append(acc, Unescape(text[i + 1])))
    ELSE IF text[i] = "\n" THEN ParseFailure
    ELSE ParseStringBody(text, i + 1, Append(acc, text[i]))

ParseString(text, i) ==
    IF i <= Len(text) /\ text[i] = "\"" THEN ParseStringBody(text, i + 1, <<>>)
    ELSE ParseFailure

\* members of an object from position i (the first character of a key)
RECURSIVE ParseMembers(_, _, _)
ParseMembers(text, i, acc) ==
    LET k == ParseString(text, i) IN
    IF ~k.ok THEN ParseFailure
    ELSE
    LET c == SkipWhiteSpace(text, k.next) IN
    IF c > Len(text) \/ text[c] # ":" THEN ParseFailure
    ELSE
    LET v == ParseString(text, SkipWhiteSpace(text, c + 1)) IN
    IF ~v.ok THEN ParseFailure
    ELSE
    LET e == SkipWhiteSpace(text, v.next)
        obj == ObjectSet(acc, k.value, v.value)
    IN  IF e > Len(text) THEN ParseFailure
        ELSE IF text[e] = "}" THEN [ok |-> TRUE, value |-> obj, next |-> e + 1]
        ELSE IF text[e] = "," THEN ParseMembers(text, SkipWhiteSpace(text, e + 1), obj)
        ELSE ParseFailure

JSONParse(text) ==
    LET s == SkipWhiteSpace(text, 1) IN
    IF s > Len(text) \/ text[s] # "{" THEN ParseFailure
    ELSE
    LET m == SkipWhiteSpace(text, s + 1)
        r == IF m <= Len(text) /\ text[m] = "}"
             THEN [ok |-> TRUE, value |-> <<>>, next |-> m + 1]
             ELSE ParseMembers(text, m, <<>>)
    IN  IF r.ok /\ SkipWhiteSpace(text, r.next) > Len(text) THEN r ELSE ParseFailure

----------------------------------------------------------------------------
(* The platform's controls: what a control's value can be, the constraint  *)
(* validation behind formEl.checkValidity() and the entry list behind      *)
(* new FormData(formEl).                                                   *)

\* the input kinds of the platform the explored configurations use; for any
\* other keyword the type attribute is in the Text state
PlatformInputKinds == {"text", "date", "time", "email", "number"}

\* what input.type reads after `input.type = t`
InputTypeState(t) == IF t \in PlatformInputKinds THEN t ELSE "text"

TextValues == {<<>>, <<"y">>, <<"\"", "\\">>}
DateValues == {<<>>, <<"2", "0", "2", "4", "-", "0", "5", "-", "0", "1">>}
TimeValues == {<<>>, <<"0", "9", ":", "3", "0">>}
EmailValues == {<<>>, <<"y">>, <<"a", "@", "b">>}
NumberValues == {<<>>, <<"7">>}

\* the values a user can give the control of wrapper w
ValueDomain(w) ==
    CASE w.tag = "select" -> Range(w.options)
      [] w.tag = "textarea" -> TextValues
      [] w.kind = "date" -> DateValues
      [] w.kind = "time" -> TimeValues
      [] w.kind = "email" -> EmailValues
      [] w.kind = "number" -> NumberValues
      [] OTHER -> TextValues

\* a control's value when it is created: a select shows its first option
DefaultValue(w) ==
    IF w.tag = "select" /\ w.options # <<>> THEN w.options[1] ELSE <<>>

\* index of the selected option of a select whose value is v (0: none)
SelectedIndex(w, v) ==
    IF \E i \in DOMAIN w.options : w.options[i] = v
    THEN CHOOSE i \in DOMAIN w.options :
            w.options[i] = v /\ \A j \in DOMAIN w.options : w.options[j] = v => i <= j
    ELSE 0

\* the control suffers from being missing (it is required and has no value)
ValueMissing(w, v) ==
    IF w.tag = "select"
    THEN SelectedIndex(w, v) = 0 \/ (SelectedIndex(w, v) = 1 /\ w.options[1] = <<>>)
    ELSE v = <<>>

\* a valid e-mail address: one "@" between two non-empty parts
ValidEmail(v) ==
    /\ Cardinality({i \in DOMAIN v : v[i] = "@"}) = 1
    /\ v[1] # "@"
    /\ v[Len(v)] # "@"

\* the control suffers from a type mismatch
TypeMismatch(w, v) == w.tag = "input" /\ w.kind = "email" /\ v # <<>> /\ ~ValidEmail(v)

ControlValid_RequiredOnly(w, v) == ~(w.required /\ ValueMissing(w, v))

ControlValid(w, v) == ~(w.required /\ ValueMissing(w, v)) /\ ~TypeMismatch(w, v)

CheckValidity_StickyRejection(wrappers, values) ==
    /\ \A i \in DOMAIN wrappers :
          wrappers[i].hasControl => ControlValid(wrappers[i], values[wrappers[i].name])
    /\ \A k \in DOMAIN summary : ~summary[k].show

CheckValidity_SkipsHidden(wrappers, values) ==
    \A i \in DOMAIN wrappers :
        (wrappers[i].hasControl /\ display[i] = "")
            => ControlValid(wrappers[i], values[wrappers[i].name])

\* formEl.checkValidity(): every control of the form satisfies its constraints
CheckValidity(wrappers, values) ==
    \A i \in DOMAIN wrappers :
        wrappers[i].hasControl => ControlValid(wrappers[i], values[wrappers[i].name])

\* the entry a control contributes to the form's entry list
ControlEntries(w, v) ==
    IF ~w.hasControl THEN <<>>
    ELSE IF w.tag = "select" /\ SelectedIndex(w, v) = 0 THEN <<>>
    ELSE <<[key |-> w.name, value |-> v]>>

RECURSIVE FormDataFrom(_, _, _)
FormDataFrom(wrappers, values, i) ==
    IF i > Len(wrappers) THEN <<>>
    ELSE ControlEntries(wrappers[i], IF wrappers[i].hasControl
                                     THEN values[wrappers[i].name] ELSE <<>>)
         \o FormDataFrom(wrappers, values, i + 1)

\* new FormData(formEl).entries(), in tree order
FormData(wrappers, values) == FormDataFrom(wrappers, values, 1)

----------------------------------------------------------------------------
(* createField                                                             *)

PermissionSuppressed_IgnoresCase(field, userRole) ==
    LET Lower(r) == IF r = "Admin" THEN "admin" ELSE IF r = "User" THEN "user" ELSE r
    IN  /\ field.permissions.present
        /\ \/ ~field.permissions.roles.present
           \/ Lower(userRole) \notin {Lower(r) : r \in Range(field.permissions.roles.value)}

\* the permissions check of createField
PermissionSuppressed(field, userRole) ==
    /\ field.permissions.present
    /\ \/ ~field.permissions.roles.present
       \/ userRole \notin Range(field.permissions.roles.value)

InputType_DefaultText(field) ==
    IF field.type.present /\ field.type.value \in {"text", "date", "time"}
    THEN field.type.value ELSE "text"

\* input.type after `input.type = field.type || 'text'`
InputType(field) ==
    InputTypeState(IF field.type.present /\ field.type.value # ""
                   THEN field.type.value ELSE "text")

\* the element the switch on field.type creates
ControlTag(field) ==
    IF field.type.present /\ field.type.value = "textarea" THEN "textarea"
    ELSE IF field.type.present /\ field.type.value = "select" THEN "select"
    ELSE "input"

Placeholder(field) ==
    [fieldId |-> field.id, permissionHidden |-> TRUE, hasControl |-> FALSE,
     tag |-> "", kind |-> "", id |-> <<>>, name |-> <<>>, required |-> FALSE,
     options |-> <<>>, labelFor |-> <<>>, requiredMark |-> FALSE,
     hasVisibleIf |-> FALSE, visibleIfField |-> <<>>, visibleIfEquals |-> <<>>]

\* the div.field wrapper createField(field, userRole) returns
createField(field, userRole) ==
    IF PermissionSuppressed(field, userRole) THEN Placeholder(field)
    ELSE [fieldId |-> field.id,
          permissionHidden |-> FALSE,
          hasControl |-> TRUE,
          tag |-> ControlTag(field),
          kind |-> IF ControlTag(field) = "input" THEN InputType(field) ELSE ControlTag(field),
          id |-> field.id,
          name |-> field.id,
          required |-> field.required,
          options |-> IF ControlTag(field) = "select" /\ field.options.present
                      THEN field.options.value ELSE <<>>,
          labelFor |-> field.id,
          requiredMark |-> field.required,
          hasVisibleIf |-> field.visibleIf.present,
          visibleIfField |-> IF field.visibleIf.present THEN field.visibleIf.field ELSE <<>>,
          visibleIfEquals |-> IF field.visibleIf.present THEN field.visibleIf.equals ELSE <<>>]

----------------------------------------------------------------------------
(* renderForm: section order and headings                                  *)

\* a.order || 0
SectionOrder(section) ==
    IF section.order.present /\ section.order.value # 0 THEN section.order.value ELSE 0

\* the comparator handed to sort
CompareSections(a, b) == SectionOrder(a) - SectionOrder(b)

InsertSorted_Unstable(sorted, x) ==
    LET before == {i \in DOMAIN sorted : CompareSections(sorted[i], x) < 0}
        n == Cardinality(before)
    IN  SubSeq(sorted, 1, n) \o <<x>> \o SubSeq(sorted, n + 1, Len(sorted))

\* one step of the stable sort: x goes after every element that does not
\* compare greater than it
InsertSorted(sorted, x) ==
    LET before == {i \in DOMAIN sorted : CompareSections(sorted[i], x) <= 0}
        n == Cardinality(before)
    IN  SubSeq(sorted, 1, n) \o <<x>> \o SubSeq(sorted, n + 1, Len(sorted))

RECURSIVE SortFrom(_, _, _)
SortFrom(sections, i, sorted) ==
    IF i > Len(sections) THEN sorted
    ELSE SortFrom(sections, i + 1, InsertSorted(sorted, sections[i]))

\* [...config.sections].sort(comparator): Array.prototype.sort is stable
SortSections(sections) == SortFrom(sections, 1, <<>>)

ShowSectionNumbers(cfg) ==
    /\ cfg.layout.present
    /\ cfg.layout.showSectionNumbers.present
    /\ cfg.layout.showSectionNumbers.value

\* sectionTitle.textContent for the section at (0-based) index of the sorted array
SectionTitle(cfg, index, section) ==
    IF ShowSectionNumbers(cfg)
    THEN NumberToString(index + 1) \o <<".", " ">> \o section.label
    ELSE section.label

\* section.fields || []
SectionFields(section) == IF section.fields.present THEN section.fields.value ELSE <<>>

\* params.get('role') || 'user'
UserRole(param) == IF param.present /\ param.value # "" THEN param.value ELSE "user"

RECURSIVE RenderFields(_, _, _)
RenderFields(fields, userRole, i) ==
    IF i > Len(fields) THEN <<>>
    ELSE <<createField(fields[i], userRole)>> \o RenderFields(fields, userRole, i + 1)

\* the div.field wrappers of the sections, in tree order
RECURSIVE RenderSections(_, _, _)
RenderSections(sections, userRole, i) ==
    IF i > Len(sections) THEN <<>>
    ELSE RenderFields(SectionFields(sections[i]), userRole, 1)
         \o RenderSections(sections, userRole, i + 1)

----------------------------------------------------------------------------
(* applyVisibilityRules                                                    *)

\* names of the controls: the keys of fieldMap
ControlNames(wrappers) == {wrappers[i].name : i \in {j \in DOMAIN wrappers : wrappers[j].hasControl}}

\* fieldMap[name]: the wrapper holding the control registered under name
\* (a later control of the same name replaces an earlier one); 0: no entry
FieldMap(wrappers, name) ==
    LET holders == {i \in DOMAIN wrappers : wrappers[i].hasControl /\ wrappers[i].name = name}
    IN  IF holders = {} THEN 0
        ELSE CHOOSE i \in holders : \A j \in holders : j <= i

\* updateVisibility assigns the wrapper's style.display
Assigns(wrappers, i) ==
    /\ wrappers[i].hasVisibleIf
    /\ wrappers[i].visibleIfField # <<>>
    /\ FieldMap(wrappers, wrappers[i].visibleIfField) # 0

\* controller.value === depValue
ShouldShow(wrappers, values, i) ==
    values[wrappers[i].visibleIfField] = wrappers[i].visibleIfEquals

\* style.display of every wrapper after updateVisibility()
updateVisibility(wrappers, values, displays) ==
    [i \in DOMAIN wrappers |->
        IF Assigns(wrappers, i)
        THEN (IF ShouldShow(wrappers, values, i) THEN "" ELSE "none")
        ELSE displays[i]]

----------------------------------------------------------------------------
(* The submit listener                                                     *)

ValidationMessage == "Please fix the errors above before submitting."

GetValidationSummary_NeverFound(els) == 0

\* document.getElementById('validation-summary'): the first such element (0: null)
GetValidationSummary(els) == IF els = <<>> THEN 0 ELSE 1

\* createValidationSummary appends a new element to the form
createValidationSummary(els) == Append(els, [text |-> "", show |-> FALSE])

\* for (const [key, value] of formData.entries()) data[key] = value
RECURSIVE CollectData(_, _, _)
CollectData(entries, i, data) ==
    IF i > Len(entries) THEN data
    ELSE CollectData(entries, i + 1, ObjectSet(data, entries[i].key, entries[i].value))

----------------------------------------------------------------------------
(* The explored configurations.  Field ids are unique in a configuration   *)
(* and visibleIf.field names one of them.                                  *)

NoType == [present |-> FALSE, value |-> ""]
NoOrder == [present |-> FALSE, value |-> 0]
NoOptions == [present |-> FALSE, value |-> <<>>]
NoFields == [present |-> FALSE, value |-> <<>>]
NoRoleParam == [present |-> FALSE, value |-> ""]
NoPermissions == [present |-> FALSE, roles |-> [present |-> FALSE, value |-> <<>>]]
NoVisibleIf == [present |-> FALSE, field |-> <<>>, equals |-> <<>>]
NoLayout == [present |-> FALSE, showSectionNumbers |-> [present |-> FALSE, value |-> FALSE]]

Permissions(roles) == [present |-> TRUE, roles |-> roles]
VisibleIf(field, equals) == [present |-> TRUE, field |-> field, equals |-> equals]
Layout(flag) == [present |-> TRUE, showSectionNumbers |-> flag]

Layouts ==
    {NoLayout, Layout([present |-> FALSE, value |-> FALSE]), Layout(Some(FALSE)), Layout(Some(TRUE))}

\* option lists: distinct values, an empty value only as the leading placeholder
OptionLists == {NoOptions, Some(<<>>), Some(<< <<"x">>, <<"y">> >>), Some(<< <<>>, <<"y">> >>)}

\* sections without fields, in every arrangement of order and label
BareSections ==
    [label : {<<"A">>, <<"B">>},
     order : {NoOrder} \cup {Some(o) : o \in 0..MaxOrder},
     fields : {NoFields}]

SectionLists == UNION {[1..n -> BareSections] : n \in 0..MaxSections}

SectionScenarios ==
    [config : [layout : Layouts, sections : SectionLists], role : {NoRoleParam}]

\* one field, in every arrangement of type, options, required and permissions
FieldTypes ==
    {NoType} \cup {Some(t) : t \in {"", "textarea", "select", "text", "date", "time",
                                     "email", "number", "rating"}}

PermissionSets ==
    {NoPermissions,
     Permissions([present |-> FALSE, value |-> <<>>]),
     Permissions(Some(<<>>)),
     Permissions(Some(<<"admin">>)),
     Permissions(Some(<<"admin", "user">>)),
     Permissions(Some(<<"User">>))}

RoleParams == {NoRoleParam, Some(""), Some("user"), Some("admin"), Some("Admin")}

SingleFields ==
    {f \in [id : {<<"a">>}, type : FieldTypes, required : BOOLEAN, options : OptionLists,
            permissions : PermissionSets, visibleIf : {NoVisibleIf}] :
        f.options.present => (f.type.present /\ f.type.value = "select")}

FieldScenarios ==
    {[config |-> [layout |-> NoLayout,
                  sections |-> <<[label |-> <<"A">>, order |-> NoOrder,
                                  fields |-> Some(<<f>>)]>>],
      role |-> r] : f \in SingleFields, r \in RoleParams}

\* a controller b and a field c that may depend on it, c's section listed first
Controllers ==
    {f \in [id : {<<"b">>}, type : {Some("text"), Some("select"), Some("email")},
            required : BOOLEAN, options : OptionLists \ {Some(<< <<>>, <<"y">> >>)},
            permissions : {NoPermissions, Permissions(Some(<<"admin">>))},
            visibleIf : {NoVisibleIf}] :
        f.options.present <=> f.type.value = "select"}

Dependents ==
    {f \in [id : {<<"c">>}, type : {Some("text"), Some("select")},
            required : BOOLEAN, options : {NoOptions, Some(<< <<>>, <<"y">> >>)},
            permissions : {NoPermissions, Permissions(Some(<<"admin">>))},
            visibleIf : {NoVisibleIf, VisibleIf(<<"b">>, <<"y">>), VisibleIf(<<"b">>, <<>>)}] :
        f.options.present <=> f.type.value = "select"}

DependencyScenarios ==
    {[config |-> [layout |-> NoLayout,
                  sections |-> <<[label |-> <<"B">>, order |-> Some(2), fields |-> Some(<<c>>)],
                                 [label |-> <<"A">>, order |-> Some(1), fields |-> Some(<<b>>)]>>],
      role |-> NoRoleParam] : b \in Controllers, c \in Dependents}

Scenarios == SectionScenarios \cup FieldScenarios \cup DependencyScenarios

----------------------------------------------------------------------------
(* The state machine.  The host page starts with an empty, hidden output   *)
(* area and holds no element of id 'validation-summary' of its own.        *)

Init ==
    /\ \E s \in Scenarios : config = s.config /\ roleParam = s.role
    /\ pc = "loaded"
    /\ headings = <<>>
    /\ dom = <<>>
    /\ value = <<>>
    /\ display = <<>>
    /\ evaluated = {}
    /\ pending = FALSE
    /\ summary = <<>>
    /\ outputText = <<>>
    /\ outputHidden = TRUE
    /\ lastOutcome = "none"
    /\ submits = 0

\* renderForm(config), applyVisibilityRules(formEl) included
renderForm ==
    /\ pc = "loaded"
    /\ LET userRole == UserRole(roleParam)
           sections == SortSections(config.sections)
           wrappers == RenderSections(sections, userRole, 1)
           values == [n \in ControlNames(wrappers) |->
                        DefaultValue(wrappers[FieldMap(wrappers, n)])]
           shown == [i \in DOMAIN wrappers |-> ""]
       IN  /\ headings' = [k \in DOMAIN sections |-> SectionTitle(config, k - 1, sections[k])]
           /\ dom' = wrappers
           /\ value' = values
           /\ display' = updateVisibility(wrappers, values, shown)
           /\ evaluated' = {i \in DOMAIN wrappers : Assigns(wrappers, i)}
    /\ pc' = "mounted"
    /\ UNCHANGED <<config, roleParam, pending, summary, outputText, outputHidden,
                   lastOutcome, submits>>

\* the user gives a displayed control another value
userInput ==
    /\ pc = "mounted"
    /\ \E i \in DOMAIN dom :
        /\ dom[i].hasControl
        /\ display[i] = ""
        /\ \E v \in ValueDomain(dom[i]) \ {value[dom[i].name]} :
              value' = [value EXCEPT ![dom[i].name] = v]
    /\ pending' = TRUE
    /\ UNCHANGED <<config, roleParam, pc, headings, dom, display, evaluated, summary,
                   outputText, outputHidden, lastOutcome, submits>>

\* the change event of a control: its listener is updateVisibility
change ==
    /\ pc = "mounted"
    /\ pending
    /\ display' = updateVisibility(dom, value, display)
    /\ evaluated' = evaluated \cup {i \in DOMAIN dom : Assigns(dom, i)}
    /\ pending' = FALSE
    /\ UNCHANGED <<config, roleParam, pc, headings, dom, value, summary,
                   outputText, outputHidden, lastOutcome, submits>>

\* the submit listener of the form
submit ==
    /\ pc = "mounted"
    /\ submits < MaxSubmits
    /\ submits' = submits + 1
    /\ IF ~CheckValidity(dom, value)
       THEN LET found == GetValidationSummary(summary)
                els == IF found # 0 THEN summary ELSE createValidationSummary(summary)
                el == IF found # 0 THEN found ELSE Len(els)
            IN  /\ summary' = [els EXCEPT ![el] = [text |-> ValidationMessage, show |-> TRUE]]
                /\ lastOutcome' = "Rejected"
                /\ UNCHANGED <<outputText, outputHidden>>
       ELSE LET found == GetValidationSummary(summary)
                data == CollectData(FormData(dom, value), 1, <<>>)
            IN  /\ summary' = IF found # 0
                              THEN [summary EXCEPT ![found].show = FALSE]
                              ELSE summary
                /\ outputText' = JSONStringify(data)
                /\ outputHidden' = FALSE
                /\ lastOutcome' = "Accepted"
    /\ UNCHANGED <<config, roleParam, pc, headings, dom, value, display, evaluated, pending>>

Next == renderForm \/ userInput \/ change \/ submit

Spec == Init /\ [][Next]_vars


----------------------------------------------------------------------------
(* Vocabulary of the properties                                            *)

Mounted == pc = "mounted"

\* the FieldSpecs of the configuration
ConfigFields ==
    UNION {Range(SectionFields(config.sections[k])) : k \in DOMAIN config.sections}

FieldById(id) == CHOOSE f \in ConfigFields : f.id = id

\* the wrapper rendered for the field of that id
WrapperOf(id) == CHOOSE i \in DOMAIN dom : dom[i].fieldId = id

\* wrappers holding an interactive control
Interactive == {i \in DOMAIN dom : dom[i].hasControl}

ValueOf(i) == value[dom[i].name]

\* the role set of a field's permissions
RoleSet(f) == IF f.permissions.roles.present THEN Range(f.permissions.roles.value) ELSE {}

SummaryShown == \E k \in DOMAIN summary : summary[k].show

RequiredFilled == \A i \in Interactive : dom[i].required => ValueOf(i) # <<>>

WellFormed ==
    \A i \in Interactive :
        (dom[i].kind = "email" /\ ValueOf(i) # <<>>) => ValidEmail(ValueOf(i))

\* field id -> value over the interactive controls
ControlValues == {<<dom[i].name, ValueOf(i)>> : i \in Interactive}

\* the same without the selects that have no option to select
SubmittableValues ==
    {<<dom[i].name, ValueOf(i)>> :
        i \in {j \in Interactive : ~(dom[j].tag = "select" /\ dom[j].options = <<>>)}}

Snapshot(text) == ObjectAsMapping(JSONParse(text).value)

----------------------------------------------------------------------------
(* C1: after mount and after every change notification, a dependent field  *)
(* whose controller is an interactive control is Visible iff the           *)
(* controller's value equals the target, and Hidden otherwise.             *)

C1_VisibleIffControllerEqualsTarget ==
    (Mounted /\ ~pending) =>
        \A f \in ConfigFields :
            (f.visibleIf.present /\ f.visibleIf.field \in ControlNames(dom)) =>
                display[WrapperOf(f.id)] =
                    (IF value[f.visibleIf.field] = f.visibleIf.equals THEN "" ELSE "none")

----------------------------------------------------------------------------
(* C7: after mount every field declaring visibleIf has been set to Visible *)
(* or Hidden by the engine, also when its controller or the field itself   *)
(* is suppressed for the role.                                             *)

C7_NoFieldLeftUnevaluated ==
    Mounted =>
        \A f \in ConfigFields :
            f.visibleIf.present =>
                /\ WrapperOf(f.id) \in evaluated
                /\ (~pending /\ f.visibleIf.field \in ControlNames(dom)) =>
                        (display[WrapperOf(f.id)] = ""
                            <=> value[f.visibleIf.field] = f.visibleIf.equals)

----------------------------------------------------------------------------
(* C4: a field is rendered as a suppressed placeholder without control iff *)
(* its permissions are present and their role set does not contain the     *)
(* role (exact match); otherwise it gets a control whose id and name are   *)
(* the field id.                                                           *)

C4_SuppressedIffRoleExcluded ==
    Mounted =>
        /\ {dom[i].fieldId : i \in DOMAIN dom} = {f.id : f \in ConfigFields}
        /\ \A i \in DOMAIN dom :
            LET f == FieldById(dom[i].fieldId) IN
            /\ dom[i].permissionHidden <=>
                  (f.permissions.present /\ UserRole(roleParam) \notin RoleSet(f))
            /\ dom[i].permissionHidden => ~dom[i].hasControl
            /\ ~dom[i].permissionHidden =>
                  (dom[i].hasControl /\ dom[i].tag \in {"input", "select", "textarea"}
                   /\ dom[i].id = f.id /\ dom[i].name = f.id)

C4_Witness ==
    /\ Mounted
    /\ \E i \in DOMAIN dom :
          /\ dom[i].permissionHidden
          /\ UserRole(roleParam) = "user"
          /\ RoleSet(FieldById(dom[i].fieldId)) = {"User"}

----------------------------------------------------------------------------
(* C5: one heading per section, in ascending order (missing order as 0),   *)
(* ties in configuration order; the k-th heading reads "k. label" when     *)
(* layout.showSectionNumbers is true and the label alone otherwise.        *)

OrderKey(k) == IF config.sections[k].order.present THEN config.sections[k].order.value ELSE 0

\* position of the k-th configured section among the headings
Rank(k) ==
    1 + Cardinality({j \in DOMAIN config.sections :
                        OrderKey(j) < OrderKey(k) \/ (OrderKey(j) = OrderKey(k) /\ j < k)})

Numbered ==
    config.layout.present /\ config.layout.showSectionNumbers.present
        /\ config.layout.showSectionNumbers.value = TRUE

C5_HeadingsSortedAndNumbered ==
    Mounted =>
        /\ Len(headings) = Len(config.sections)
        /\ \A k \in DOMAIN config.sections :
              headings[Rank(k)] =
                  IF Numbered
                  THEN <<DigitChar[Rank(k) + 1], ".", " ">> \o config.sections[k].label
                  ELSE config.sections[k].label

C5_Witness ==
    /\ Mounted
    /\ Len(config.sections) = 3
    /\ config.sections[1].order = Some(2) /\ config.sections[1].label = <<"A">>
    /\ config.sections[2].order = Some(1) /\ config.sections[2].label = <<"B">>
    /\ config.sections[3].order = Some(1) /\ config.sections[3].label = <<"A">>
    /\ headings = << <<"1", ".", " ", "B">>, <<"2", ".", " ", "A">>, <<"3", ".", " ", "A">> >>

----------------------------------------------------------------------------
(* C10: textarea and select get their own controls, text, date and time an *)
(* input of that kind, and every other or missing type an input of kind    *)
(* Text.                                                                   *)

RecognizedControl(i, f) ==
    /\ (f.type.present /\ f.type.value = "textarea") => dom[i].tag = "textarea"
    /\ (f.type.present /\ f.type.value = "select") =>
          /\ dom[i].tag = "select"
          /\ dom[i].options = (IF f.options.present THEN f.options.value ELSE <<>>)
    /\ (f.type.present /\ f.type.value \in {"text", "date", "time"}) =>
          (dom[i].tag = "input" /\ dom[i].kind = f.type.value)

OtherType(f) ==
    ~f.type.present \/ f.type.value \notin {"textarea", "select", "text", "date", "time"}

C10_UnknownTypeDefaultsToText ==
    Mounted =>
        \A i \in Interactive :
            LET f == FieldById(dom[i].fieldId) IN
            /\ RecognizedControl(i, f)
            /\ OtherType(f) => (dom[i].tag = "input" /\ dom[i].kind = "text")

\* C10 (amended): as C10, but another type that names an input kind of the
\* platform is kept; only a missing, empty or unknown type gives kind Text.
C10_UnknownTypePassedToPlatform ==
    Mounted =>
        \A i \in Interactive :
            LET f == FieldById(dom[i].fieldId) IN
            /\ RecognizedControl(i, f)
            /\ OtherType(f) =>
                  /\ dom[i].tag = "input"
                  /\ dom[i].kind = (IF f.type.present /\ f.type.value \in {"email", "number"}
                                    THEN f.type.value ELSE "text")

C10_Witness ==
    /\ Mounted
    /\ \E i \in Interactive :
          dom[i].kind = "email" /\ FieldById(dom[i].fieldId).type = Some("email")

----------------------------------------------------------------------------
(* C2: the text an Accepted submit writes deserializes to exactly the      *)
(* mapping from field id to current value over the interactive controls;   *)
(* Hidden fields are included, suppressed fields have no entry.            *)

----------------------------------------------------------------------------
(* C3: a submit while a required interactive control is empty shows the    *)
(* validation summary with the fixed message and leaves the output area's  *)
(* content and revealed state as they were.                                *)

----------------------------------------------------------------------------
(* C6: every submit ends Rejected or Accepted and the handler stays ready; *)
(* after a Rejected submit, a submit with the required fields filled is    *)
(* Accepted; the summary is shown iff the most recent submit was Rejected. *)

SubmitCycle ==
    /\ []((Mounted /\ submits < MaxSubmits) => ENABLED submit)
    /\ [][submit => (pc' = "mounted" /\ lastOutcome' \in {"Rejected", "Accepted"})]_vars
    /\ [](SummaryShown <=> lastOutcome = "Rejected")

C6_ResubmitAcceptedOnceRequiredFilled ==
    /\ SubmitCycle
    /\ [][(submit /\ lastOutcome = "Rejected" /\ RequiredFilled) =>
              lastOutcome' = "Accepted"]_vars

\* C6 (amended): as C6, the resubmit being Accepted once the required fields
\* are filled and no control holds a value its input kind rejects.
C6_ResubmitAcceptedOnceValid ==
    /\ SubmitCycle
    /\ [][(submit /\ lastOutcome = "Rejected" /\ RequiredFilled /\ WellFormed) =>
              lastOutcome' = "Accepted"]_vars

C6_Witness ==
    /\ lastOutcome = "Accepted"
    /\ Len(summary) = 1
    /\ ~summary[1].show
    /\ \E i \in Interactive : dom[i].required

----------------------------------------------------------------------------
(* C8: a submit is Accepted iff every required interactive control holds a *)
(* non-empty value, whatever its visibility; a suppressed required field   *)
(* never causes a rejection.                                               *)

----------------------------------------------------------------------------
(* C9: at most one validation-summary element exists; the first Rejected   *)
(* submit creates it, later ones reuse it, no Accepted submit creates or   *)
(* removes it.                                                             *)

C9_OneSummaryElement ==
    /\ [](Len(summary) <= 1)
    /\ [][(submit /\ lastOutcome' = "Rejected") => Len(summary') = 1]_vars
    /\ [][Len(summary') # Len(summary) =>
              (submit /\ lastOutcome' = "Rejected" /\ Len(summary) = 0)]_vars

C9_Witness ==
    /\ Len(summary) = 1
    /\ summary[1].show
    /\ lastOutcome = "Rejected"
    /\ ~outputHidden

====
